---- MODULE Spec2Model ----
(***************************************************************************)
(* BaselineSystem (lightning/systems/semi/Baseline.py): the orchestration  *)
(* layer that wires an embedding module, a text encoder, an optional       *)
(* codebook matching module, the acoustic model and the loss function, and *)
(* the per-batch protocol the training loop drives it with.                *)
(*                                                                         *)
(* Tensors and submodule outputs are symbolic terms: a submodule applied   *)
(* to its arguments under the current learned parameters yields the term   *)
(* that names exactly that application, so data flow between the stages is *)
(* visible in the state.                                                   *)
(***************************************************************************)
EXTENDS Integers, Sequences, FiniteSets, TLC

VARIABLES
    self,       \* the system object's attributes: name -> value
    heap,       \* objects built by build_model: id -> [cls, emb_banks]
    weights,    \* version of the learned parameters (stepped by the optimizer)
    pc,         \* position of the external driver
    batch,      \* the batch object the driver currently holds
    handler,    \* name of the method called last
    passes,     \* forward passes run by that call, each with its stage calls
    ret,        \* what that call returned or raised
    logged,     \* payload of the last log_dict call
    lastTrain,  \* (batch, weights, losses) of the last training_step
    lastVal,    \* (batch, weights, losses) of the last validation_step
    lastInf     \* (inputs, weights, result) of the last inference call

vars == <<self, heap, weights, pc, batch, handler, passes, ret, logged,
          lastTrain, lastVal, lastInf>>

----------------------------------------------------------------------------
(* Bounds of the model *)

MinBatchLen == 12
MaxBatchLen == 14
MaxWeights == 2
MaxTextLen == 1
LossMod == 3

BatchIds == {1, 2}
RefFrames == {2}
SymbolIds == {"en-sym"}
UseMatchingChoices == BOOLEAN
BatchSizes == {8}

(* The arity on_*_batch_start asserts. *)
BatchArity == 13

----------------------------------------------------------------------------
(* Symbolic values *)

T(op, args, k) == [op |-> op, args |-> args, k |-> k]

Tensor(b, i) == T("tensor", <<>>, <<b, i>>)

PyNone == T("None", <<>>, <<>>)

Kw(name, v) == T(name \o "=", <<v>>, <<>>)

PyTuple(items) == T("tuple", items, <<>>)

PyStr(s) == T("'" \o s \o "'", <<>>, <<>>)

Call(fn, args, out) == [fn |-> fn, args |-> args, out |-> out]

(* batch[i], batch[lo:hi] and batch[-1] with Python's 0-based indices *)
Idx(seq, i) == seq[i + 1]

Slice(seq, lo, hi) ==
    LET h == IF hi > Len(seq) THEN Len(seq) ELSE hi
    IN  SubSeq(seq, lo + 1, h)

Last(seq) == seq[Len(seq)]

(* A batch produced by the data pipeline: n positional tensors. *)
MakeBatch(b, n) == [i \in 1..n |-> Tensor(b, i - 1)]

Batches == {MakeBatch(b, n) : b \in BatchIds, n \in MinBatchLen..MaxBatchLen}

SetAttr(obj, name, v) == (name :> v) @@ obj

----------------------------------------------------------------------------
(* Collaborators that live outside Baseline.py *)

LANG_NAME2ID == ("en" :> 0) @@ ("zh" :> 1)

build_all_speakers(data_configs) ==
    UNION {data_configs[i].speakers : i \in DOMAIN data_configs}

(* A module's forward is a deterministic function of its arguments and of
   the learned parameters. *)
embedding_model(args) == T("embedding_model", args, <<weights>>)

text_encoder(x, lengths) ==
    T("text_encoder", <<x, Kw("lengths", lengths)>>, <<weights>>)

(* The matching module attends over the bank its emb_banks field points at
   and returns (mixed representation, attention weights). *)
text_matching(x) ==
    LET bank == heap[self["text_matching"]].emb_banks
    IN  PyTuple(<<T("text_matching", <<x>>, <<weights, bank>>),
                  T("text_matching.attn", <<x>>, <<weights, bank>>)>>)

model(args) == T("model", args, <<weights>>)

(* The loss function returns (total, mel, postnet, pitch, energy, duration):
   five non-negative error terms and their sum. *)
LossTerm(i, targets, output) == (i * Len(targets) + output.k[1]) % LossMod

RECURSIVE SumTerms(_, _, _)
SumTerms(n, targets, output) ==
    IF n = 0 THEN 0
    ELSE LossTerm(n, targets, output) + SumTerms(n - 1, targets, output)

loss_func(targets, output) ==
    PyTuple([i \in 1..6 |->
        T("loss", targets \o <<output>>,
          <<i - 1, IF i = 1 THEN SumTerms(5, targets, output)
                   ELSE LossTerm(i - 1, targets, output)>>)])

(* Tensor.item(): the Python number a scalar loss tensor holds. *)
Item(t) == t.k[2]

----------------------------------------------------------------------------
(* Construction *)

ModelConfigs ==
    {[speaker_emb |-> "table", use_matching |-> u,
      transformer |-> [encoder_hidden |-> 4],
      text_encoder |-> [layers |-> 1],
      matching |-> [codebook_size |-> 2, dim |-> 4, nhead |-> 1]] :
        u \in UseMatchingChoices}

TrainConfigs == {[optimizer |-> [batch_size |-> n]] : n \in BatchSizes}

DataConfigs ==
    {<<[speakers |-> {"s1"}, symbol_id |-> "en-sym"]>>}

NoResult == [batch |-> <<>>, w |-> 0, losses |-> <<>>, calls |-> <<>>]

NoInference ==
    [args |-> <<>>, w |-> 0, lookups |-> <<>>, repeat |-> FALSE,
     result |-> [status |-> "none", value |-> PyNone]]

Init ==
    /\ \E mc \in ModelConfigs, tc \in TrainConfigs, dc \in DataConfigs :
           self = [model_config |-> mc, train_config |-> tc, data_configs |-> dc]
    /\ heap = <<>>
    /\ weights = 0
    /\ pc = "constructed"
    /\ batch = <<>>
    /\ handler = "__init__"
    /\ passes = <<>>
    /\ ret = [status |-> "ok", value |-> PyNone]
    /\ logged = [dict |-> <<>>, sync_dist |-> FALSE, batch_size |-> 0]
    /\ lastTrain = NoResult
    /\ lastVal = NoResult
    /\ lastInf = NoInference

build_configs(obj) ==
    LET s1 == SetAttr(obj, "spk_config",
                  [emb_type |-> obj.model_config.speaker_emb,
                   speakers |-> build_all_speakers(obj.data_configs)])
    IN  SetAttr(s1, "bs", obj.train_config.optimizer.batch_size)

New(h, cls, bank) == Append(h, [cls |-> cls, emb_banks |-> bank])

(* Variant: the module keeps the bank its constructor made. *)
AliasBankSkipped(obj, h) == h

(* self.text_matching.emb_banks = self.shared_emb_banks *)
AliasBank(obj, h) ==
    [h EXCEPT ![obj.text_matching].emb_banks = obj.shared_emb_banks]

build_model(obj, h) ==
    LET s1 == SetAttr(obj, "use_matching", obj.model_config.use_matching)
        h1 == New(h, "MultilingualEmbedding", 0)
        s2 == SetAttr(s1, "embedding_model", Len(h1))
        h2 == New(h1, "TextEncoder", 0)
        s3 == SetAttr(s2, "text_encoder", Len(h2))
        h3 == New(h2, "FastSpeech2", 0)
        s4 == SetAttr(s3, "model", Len(h3))
        h4 == New(h3, "FastSpeech2Loss", 0)
        s5 == SetAttr(s4, "loss_func", Len(h4))
    IN  IF s5.use_matching
        THEN LET h5 == New(h4, "Parameter", 0)
                 s6 == SetAttr(s5, "shared_emb_banks", Len(h5))
                 \* the constructor allocates the module's own bank ...
                 h6 == New(h5, "Parameter", 0)
                 h7 == New(h6, "SoftMultiAttCodebook", Len(h6))
                 s7 == SetAttr(s6, "text_matching", Len(h7))
                 \* ... and line 44 rebinds the field to the shared one
                 h8 == AliasBank(s7, h7)
             IN  [self |-> s7, heap |-> h8]
        ELSE [self |-> s5, heap |-> h4]

(* Variant: the loss function is handed to the optimizer too. *)
build_optimized_model_with_loss ==
    LET opt_modules == <<self.text_encoder, self.model, self.embedding_model,
                         self.loss_func>>
    IN  IF self.use_matching
        THEN opt_modules \o <<self.text_matching>>
        ELSE opt_modules

build_optimized_model ==
    LET opt_modules == <<self.text_encoder, self.model, self.embedding_model>>
    IN  IF self.use_matching
        THEN opt_modules \o <<self.text_matching>>
        ELSE opt_modules

----------------------------------------------------------------------------
(* Forward entry points.  Each returns the record of one forward pass: the
   stage calls in the order made, the attributes of self it read, and the
   value it returned (or the error it raised). *)

Pass(entry, calls, reads, value) ==
    [entry |-> entry, status |-> "ok", calls |-> calls, reads |-> reads,
     value |-> value]

(* Reading an attribute that was never assigned raises AttributeError. *)
Failed(entry, reads) ==
    [entry |-> entry, status |-> "AttributeError", calls |-> <<>>,
     reads |-> reads, value |-> PyNone]

BaseReads == {"embedding_model", "text_encoder", "use_matching", "model"}

(* Variant: matching is applied only when train is set. *)
MatchingOnlyWhenTraining(train) == self.use_matching /\ train

(* Variant: matching is applied whatever the configuration says. *)
MatchingAlways(train) == TRUE

(* `if self.use_matching:` inside common_step, where train is in scope *)
MatchingInCommonStep(train) == self.use_matching

(* `if self.use_matching:` inside synth_step and inference *)
MatchingInSynthesis == self.use_matching

(* Variant: the mel and postnet terms are bound the wrong way round. *)
LossDictSwapped(loss) ==
    <<[k |-> "Total Loss",       v |-> Idx(loss, 0)],
      [k |-> "Mel Loss",         v |-> Idx(loss, 2)],
      [k |-> "Mel-Postnet Loss", v |-> Idx(loss, 1)],
      [k |-> "Pitch Loss",       v |-> Idx(loss, 3)],
      [k |-> "Energy Loss",      v |-> Idx(loss, 4)],
      [k |-> "Duration Loss",    v |-> Idx(loss, 5)]>>

(* loss_dict = {"Total Loss": loss[0], ..., "Duration Loss": loss[5]} *)
LossDict(loss) ==
    <<[k |-> "Total Loss",       v |-> Idx(loss, 0)],
      [k |-> "Mel Loss",         v |-> Idx(loss, 1)],
      [k |-> "Mel-Postnet Loss", v |-> Idx(loss, 2)],
      [k |-> "Pitch Loss",       v |-> Idx(loss, 3)],
      [k |-> "Energy Loss",      v |-> Idx(loss, 4)],
      [k |-> "Duration Loss",    v |-> Idx(loss, 5)]>>

(* Variant: the language tag is handed to the loss function as well. *)
LossTargetsWhole(b) == Slice(b, 0, Len(b))

(* batch[:-1], the first argument of loss_func *)
LossTargets(b) == Slice(b, 0, Len(b) - 1)

True == T("True", <<>>, <<>>)

common_step(b, train) ==
    LET matching == MatchingInCommonStep(train)
        reads == BaseReads \cup (IF matching THEN {"text_matching"} ELSE {})
                           \cup {"loss_func"}
        e1 == embedding_model(<<Idx(b, 3)>>)
        e2 == text_encoder(e1, Idx(b, 4))
        m  == text_matching(e2)
        e3 == IF matching THEN Idx(m.args, 0) ELSE e2
        margs == <<Idx(b, 2), e3>> \o Slice(b, 4, Len(b))
        output == model(margs)
        targets == LossTargets(b)
        loss == loss_func(targets, output)
        calls == <<Call("embedding_model", <<Idx(b, 3)>>, e1),
                   Call("text_encoder", <<e1, Kw("lengths", Idx(b, 4))>>, e2)>>
                 \o (IF matching THEN <<Call("text_matching", <<e2>>, m)>> ELSE <<>>)
                 \o <<Call("model", margs, output),
                      Call("loss_func", <<PyTuple(targets), output>>, loss)>>
    IN  IF reads \subseteq DOMAIN self
        THEN Pass("common_step", calls, reads,
                  [loss_dict |-> LossDict(loss.args), output |-> output])
        ELSE Failed("common_step", reads)

synth_step(b) ==
    LET matching == MatchingInSynthesis
        reads == BaseReads \cup (IF matching THEN {"text_matching"} ELSE {})
        e1 == embedding_model(<<Idx(b, 3)>>)
        e2 == text_encoder(e1, Idx(b, 4))
        m  == text_matching(e2)
        e3 == IF matching THEN Idx(m.args, 0) ELSE e2
        margs == <<Idx(b, 2), e3>> \o Slice(b, 4, 6)
                 \o <<Kw("lang_args", Last(b)), Kw("average_spk_emb", True)>>
        output == model(margs)
        calls == <<Call("embedding_model", <<Idx(b, 3)>>, e1),
                   Call("text_encoder", <<e1, Kw("lengths", Idx(b, 4))>>, e2)>>
                 \o (IF matching THEN <<Call("text_matching", <<e2>>, m)>> ELSE <<>>)
                 \o <<Call("model", margs, output)>>
    IN  IF reads \subseteq DOMAIN self
        THEN Pass("synth_step", calls, reads, output)
        ELSE Failed("synth_step", reads)

(* Inputs of inference: a reference mel slice with shape[0] = frames, a
   token array, a symbol-set name and an optional language name (<<>> is
   None, <<l>> is the string l). *)
NdArray(name, k) == T("ndarray:" \o name, <<>>, k)

FromNumpy(a) == T("from_numpy", <<a>>, <<>>)

LongTensor(k) == T("LongTensor", <<>>, k)

(* Variant: LANG_NAME2ID.get(lang_id), an unknown language becomes None. *)
LangArgsGet(lang_id) ==
    IF lang_id # <<>>
    THEN IF lang_id[1] \in DOMAIN LANG_NAME2ID
         THEN [status |-> "ok", lookups |-> lang_id,
               value |-> LongTensor(<<LANG_NAME2ID[lang_id[1]]>>)]
         ELSE [status |-> "ok", lookups |-> lang_id, value |-> PyNone]
    ELSE [status |-> "ok", lookups |-> <<>>, value |-> PyNone]

(* lang_args: LANG_NAME2ID[lang_id] in a LongTensor, or None.  A key the
   table lacks raises KeyError.  lookups lists the keys looked up. *)
LangArgs(lang_id) ==
    IF lang_id # <<>>
    THEN IF lang_id[1] \in DOMAIN LANG_NAME2ID
         THEN [status |-> "ok", lookups |-> lang_id,
               value |-> LongTensor(<<LANG_NAME2ID[lang_id[1]]>>)]
         ELSE [status |-> "KeyError", lookups |-> lang_id,
               value |-> PyStr(lang_id[1])]
    ELSE [status |-> "ok", lookups |-> <<>>, value |-> PyNone]

(* The body of `with torch.no_grad():` *)
InferenceStages(spk_args, lang_args, texts, src_lens, max_src_len, symbol_id) ==
    LET matching == MatchingInSynthesis
        reads == BaseReads \cup (IF matching THEN {"text_matching"} ELSE {})
        e1 == embedding_model(<<texts, PyStr(symbol_id)>>)
        e2 == text_encoder(e1, src_lens)
        m  == text_matching(e2)
        e3 == IF matching THEN Idx(m.args, 0) ELSE e2
        margs == <<spk_args, e3, src_lens, max_src_len,
                   Kw("lang_args", lang_args), Kw("average_spk_emb", True)>>
        output == model(margs)
        calls == <<Call("embedding_model", <<texts, PyStr(symbol_id)>>, e1),
                   Call("text_encoder", <<e1, Kw("lengths", src_lens)>>, e2)>>
                 \o (IF matching THEN <<Call("text_matching", <<e2>>, m)>> ELSE <<>>)
                 \o <<Call("model", margs, output)>>
    IN  IF reads \subseteq DOMAIN self
        THEN Pass("inference", calls, reads, output)
        ELSE Failed("inference", reads)

SpkArgs(frames) ==
    PyTuple(<<FromNumpy(NdArray("spk_ref_mel_slice", <<frames>>)),
              T("list", <<T("slice", <<>>, <<0, frames>>)>>, <<>>)>>)

TextsOf(text) ==
    T("unsqueeze(0)", <<T("long", <<FromNumpy(NdArray("text", text))>>, <<>>)>>, <<>>)

(* Variant: a call leaves matching switched off on the system. *)
inference_disables_matching(frames, text, symbol_id, lang_id) ==
    LET la == LangArgs(lang_id)
        src_lens == LongTensor(<<Len(text)>>)
        p == InferenceStages(SpkArgs(frames), la.value, TextsOf(text), src_lens,
                             T("max", <<src_lens>>, <<Len(text)>>), symbol_id)
        after == SetAttr(self, "use_matching", FALSE)
    IN  IF la.status # "ok"
        THEN [self |-> self, passes |-> <<>>, lookups |-> la.lookups,
              ret |-> [status |-> la.status, value |-> la.value]]
        ELSE [self |-> after, passes |-> <<p>>, lookups |-> la.lookups,
              ret |-> [status |-> p.status, value |-> p.value]]

inference(frames, text, symbol_id, lang_id) ==
    LET spk_args == SpkArgs(frames)
        la == LangArgs(lang_id)
        texts == TextsOf(text)
        src_lens == LongTensor(<<Len(text)>>)
        max_src_len == T("max", <<src_lens>>, <<Len(text)>>)
        p == InferenceStages(spk_args, la.value, texts, src_lens, max_src_len, symbol_id)
    IN  IF la.status # "ok"
        THEN [self |-> self, passes |-> <<>>, lookups |-> la.lookups,
              ret |-> [status |-> la.status, value |-> la.value]]
        ELSE [self |-> self, passes |-> <<p>>, lookups |-> la.lookups,
              ret |-> [status |-> p.status, value |-> p.value]]

----------------------------------------------------------------------------
(* Batch-start hooks and step functions *)

(* Variant: the hook only rejects batches that are too short. *)
on_train_batch_start_lenient(b) ==
    IF Len(b) >= BatchArity
    THEN [status |-> "ok", value |-> PyNone]
    ELSE [status |-> "AssertionError", value |-> LongTensor(<<Len(b)>>)]

on_train_batch_start(b) ==
    IF Len(b) = BatchArity
    THEN [status |-> "ok", value |-> PyNone]
    ELSE [status |-> "AssertionError", value |-> LongTensor(<<Len(b)>>)]

on_validation_batch_start(b) ==
    IF Len(b) = BatchArity
    THEN [status |-> "ok", value |-> PyNone]
    ELSE [status |-> "AssertionError", value |-> LongTensor(<<Len(b)>>)]

(* Variant: the phase prefix is left off the logged keys. *)
LogDictNoPrefix(prefix, losses) ==
    [i \in DOMAIN losses |-> [k |-> losses[i].k, v |-> Item(losses[i].v)]]

(* {f"{prefix}{k}": v.item() for k, v in losses.items()} *)
LogDict(prefix, losses) ==
    [i \in DOMAIN losses |-> [k |-> prefix \o losses[i].k, v |-> Item(losses[i].v)]]

(* d[key] of an insertion-ordered dict *)
Get(d, key) == d[CHOOSE i \in DOMAIN d : d[i].k = key].v

training_step(b) ==
    LET p == common_step(b, TRUE)
        train_loss_dict == p.value.loss_dict
        output == p.value.output
        loss_dict == LogDict("Train/", train_loss_dict)
    IN  IF p.status # "ok"
        THEN [self |-> self, batch |-> b, passes |-> <<p>>, logged |-> logged,
              ret |-> [status |-> p.status, value |-> PyNone]]
        ELSE [self |-> self, batch |-> b, passes |-> <<p>>,
              logged |-> [dict |-> loss_dict, sync_dist |-> TRUE, batch_size |-> self.bs],
              ret |-> [status |-> "ok",
                       value |-> [loss |-> Get(train_loss_dict, "Total Loss"),
                                  losses |-> train_loss_dict,
                                  output |-> output,
                                  _batch |-> b]]]

validation_step(b) ==
    LET p == common_step(b, FALSE)
        val_loss_dict == p.value.loss_dict
        predictions == p.value.output
        q == synth_step(b)
        synth_predictions == q.value
        loss_dict == LogDict("Val/", val_loss_dict)
    IN  IF p.status # "ok"
        THEN [self |-> self, batch |-> b, passes |-> <<p>>, logged |-> logged,
              ret |-> [status |-> p.status, value |-> PyNone]]
        ELSE IF q.status # "ok"
        THEN [self |-> self, batch |-> b, passes |-> <<p, q>>, logged |-> logged,
              ret |-> [status |-> q.status, value |-> PyNone]]
        ELSE [self |-> self, batch |-> b, passes |-> <<p, q>>,
              logged |-> [dict |-> loss_dict, sync_dist |-> TRUE, batch_size |-> self.bs],
              ret |-> [status |-> "ok",
                       value |-> [loss |-> Get(val_loss_dict, "Total Loss"),
                                  losses |-> val_loss_dict,
                                  output |-> predictions,
                                  _batch |-> b,
                                  synth |-> synth_predictions]]]

----------------------------------------------------------------------------
(* Actions: setup, then the calls the training loop and its users make *)

BuildConfigs ==
    /\ pc = "constructed"
    /\ self' = build_configs(self)
    /\ pc' = "configured"
    /\ handler' = "build_configs"
    /\ UNCHANGED <<heap, weights, batch, passes, ret, logged, lastTrain, lastVal, lastInf>>

BuildModel ==
    /\ pc = "configured"
    /\ LET r == build_model(self, heap)
       IN  /\ self' = r.self
           /\ heap' = r.heap
    /\ pc' = "idle"
    /\ handler' = "build_model"
    /\ UNCHANGED <<weights, batch, passes, ret, logged, lastTrain, lastVal, lastInf>>

BuildOptimizedModel ==
    /\ pc = "idle"
    /\ handler' = "build_optimized_model"
    /\ ret' = [status |-> "ok", value |-> build_optimized_model]
    /\ passes' = <<>>
    /\ UNCHANGED <<self, heap, weights, pc, batch, logged, lastTrain, lastVal, lastInf>>

(* The loop fetches a batch and calls the hook; a failed assertion is fatal. *)
OnTrainBatchStart ==
    /\ pc = "idle"
    /\ \E b \in Batches :
        LET r == on_train_batch_start(b)
        IN  /\ batch' = b
            /\ ret' = r
            /\ pc' = IF r.status = "ok" THEN "train_ready" ELSE "aborted"
    /\ handler' = "on_train_batch_start"
    /\ passes' = <<>>
    /\ UNCHANGED <<self, heap, weights, logged, lastTrain, lastVal, lastInf>>

OnValidationBatchStart ==
    /\ pc = "idle"
    /\ \E b \in Batches :
        LET r == on_validation_batch_start(b)
        IN  /\ batch' = b
            /\ ret' = r
            /\ pc' = IF r.status = "ok" THEN "val_ready" ELSE "aborted"
    /\ handler' = "on_validation_batch_start"
    /\ passes' = <<>>
    /\ UNCHANGED <<self, heap, weights, logged, lastTrain, lastVal, lastInf>>

StepRecord(b, r) ==
    [batch |-> b, w |-> weights,
     losses |-> IF r.ret.status = "ok" THEN r.ret.value.losses ELSE <<>>,
     calls |-> r.passes[1].calls]

TrainingStep ==
    /\ pc = "train_ready"
    /\ LET r == training_step(batch)
       IN  /\ self' = r.self
           /\ batch' = r.batch
           /\ passes' = r.passes
           /\ logged' = r.logged
           /\ ret' = r.ret
           /\ lastTrain' = StepRecord(batch, r)
    /\ pc' = "idle"
    /\ handler' = "training_step"
    /\ UNCHANGED <<heap, weights, lastVal, lastInf>>

ValidationStep ==
    /\ pc = "val_ready"
    /\ LET r == validation_step(batch)
       IN  /\ self' = r.self
           /\ batch' = r.batch
           /\ passes' = r.passes
           /\ logged' = r.logged
           /\ ret' = r.ret
           /\ lastVal' = StepRecord(batch, r)
    /\ pc' = "idle"
    /\ handler' = "validation_step"
    /\ UNCHANGED <<heap, weights, lastTrain, lastInf>>

(* The optimizer, outside this layer, updates the learned parameters after a
   training step. *)
OptimizerStep ==
    /\ pc = "idle"
    /\ handler = "training_step"
    /\ weights < MaxWeights
    /\ weights' = weights + 1
    /\ handler' = "optimizer.step"
    /\ UNCHANGED <<self, heap, pc, batch, passes, ret, logged, lastTrain, lastVal, lastInf>>

Texts == {[i \in 1..n |-> i] : n \in 1..MaxTextLen}

LangIds == {<<>>, <<"en">>, <<"zh">>, <<"xx">>}

Inference ==
    /\ pc = "idle"
    /\ \E frames \in RefFrames, text \in Texts, symbol_id \in SymbolIds, lang_id \in LangIds :
        LET r == inference(frames, text, symbol_id, lang_id)
            args == <<<<frames>>, text, <<symbol_id>>, lang_id>>
        IN  /\ self' = r.self
            /\ passes' = r.passes
            /\ ret' = r.ret
            /\ lastInf' = [args |-> args, w |-> weights, lookups |-> r.lookups,
                           repeat |-> (lastInf.args = args /\ lastInf.w = weights),
                           result |-> r.ret]
    /\ handler' = "inference"
    /\ UNCHANGED <<heap, weights, pc, batch, logged, lastTrain, lastVal>>

Next ==
    \/ BuildConfigs
    \/ BuildModel
    \/ BuildOptimizedModel
    \/ OnTrainBatchStart
    \/ TrainingStep
    \/ OnValidationBatchStart
    \/ ValidationStep
    \/ OptimizerStep
    \/ Inference

Spec == Init /\ [][Next]_vars

----------------------------------------------------------------------------
(* Properties *)

Built == pc \in {"idle", "train_ready", "val_ready", "aborted"}

Range(f) == {f[i] : i \in DOMAIN f}

Fns(calls) == [i \in DOMAIN calls |-> calls[i].fn]

LossNames ==
    <<"Total Loss", "Mel Loss", "Mel-Postnet Loss", "Pitch Loss",
      "Energy Loss", "Duration Loss">>

StepDone == handler \in {"training_step", "validation_step"}

(* C1: a batch whose element count is not 13 fails the batch-start
   assertion, the step is never entered and no forward pass runs; every
   batch that a step function processes has exactly 13 elements. *)
C1_MalformedBatchAborts ==
    /\ (handler \in {"on_train_batch_start", "on_validation_batch_start"}
            /\ Len(batch) # BatchArity)
         => (ret.status = "AssertionError" /\ pc = "aborted" /\ passes = <<>>)
    /\ (pc \in {"train_ready", "val_ready"} \/ StepDone) => Len(batch) = BatchArity
    /\ \A i \in DOMAIN passes :
         passes[i].entry \in {"common_step", "synth_step"}
           => (Len(batch) = BatchArity
               /\ passes[i].calls[1].args = <<Idx(batch, 3)>>)
    /\ lastTrain.batch # <<>> => Len(lastTrain.batch) = BatchArity
    /\ lastVal.batch # <<>> => Len(lastVal.batch) = BatchArity

C1_Witness ==
    /\ pc = "aborted"
    /\ handler = "on_validation_batch_start"
    /\ Len(batch) # BatchArity
    /\ ret.status = "AssertionError"
    /\ lastTrain.batch # <<>>

(* C2: every common_step pass returns a loss dictionary whose keys are the
   six fixed names in order, bound to outputs 0..5 of the loss function, with
   a non-negative Total Loss, whatever train and use_matching are. *)
C2_LossDictShape ==
    \A i \in DOMAIN passes :
        passes[i].entry = "common_step" =>
            /\ passes[i].status = "ok"
            /\ LET d == passes[i].value.loss_dict
                   c == passes[i].calls
                   lossCall == c[Len(c)]
               IN  /\ lossCall.fn = "loss_func"
                   /\ [j \in DOMAIN d |-> d[j].k] = LossNames
                   /\ \A j \in 1..6 : d[j].v = Idx(lossCall.out.args, j - 1)
                   /\ Item(Get(d, "Total Loss")) >= 0

C2_Witness ==
    /\ handler = "validation_step"
    /\ ret.status = "ok"
    /\ self.use_matching
    /\ lastTrain.losses # <<>>
    /\ Item(ret.value.loss) > 0

(* C3: a training_step and a validation_step on the same batch under the
   same learned parameters return the same loss dictionary and ran the same
   common_step stages on the same arguments; validation_step returns the
   dictionary its common_step pass produced, untouched by synth_step. *)
C3_TrainValSameLosses ==
    /\ (/\ lastTrain.batch # <<>>
        /\ lastTrain.batch = lastVal.batch
        /\ lastTrain.w = lastVal.w)
         => (lastTrain.losses = lastVal.losses /\ lastTrain.calls = lastVal.calls)
    /\ (handler = "validation_step" /\ ret.status = "ok")
         => ret.value.losses = passes[1].value.loss_dict

C3_Witness ==
    /\ handler = "validation_step"
    /\ lastTrain.batch = lastVal.batch
    /\ lastTrain.w = lastVal.w
    /\ lastTrain.losses # <<>>
    /\ self.use_matching

(* C4: with use_matching off, build_model creates neither the matching
   module nor the shared bank, and every forward pass completes without
   calling or reading text_matching; with it on, each forward pass calls the
   matching module exactly once, right after the text encoder and before the
   acoustic model. *)
C4_MatchingOptional ==
    Built =>
        /\ ~self.use_matching =>
              /\ "text_matching" \notin DOMAIN self
              /\ "shared_emb_banks" \notin DOMAIN self
              /\ \A i \in DOMAIN heap :
                    heap[i].cls \notin {"SoftMultiAttCodebook", "Parameter"}
        /\ \A i \in DOMAIN passes :
              LET c == passes[i].calls
                  M == {j \in DOMAIN c : c[j].fn = "text_matching"}
              IN  /\ passes[i].status = "ok"
                  /\ ~self.use_matching =>
                        (M = {} /\ "text_matching" \notin passes[i].reads)
                  /\ self.use_matching =>
                        /\ Cardinality(M) = 1
                        /\ \A j \in M : /\ j > 1 /\ c[j - 1].fn = "text_encoder"
                                        /\ j < Len(c) /\ c[j + 1].fn = "model"

C4_Witness ==
    /\ handler = "inference"
    /\ ret.status = "ok"
    /\ ~self.use_matching
    /\ lastTrain.losses # <<>>
    /\ lastVal.losses # <<>>

(* C5: an inference call with the inputs and learned parameters of the
   previous inference call returns what that call returned, and no inference
   call changes the system, its objects or the learned parameters. *)
C5_InferenceRepeatable ==
    [][handler' = "inference" =>
          /\ self' = self /\ heap' = heap /\ weights' = weights
          /\ lastInf'.repeat => lastInf'.result = lastInf.result]_vars

C5_Witness ==
    /\ handler = "inference"
    /\ lastInf.repeat
    /\ ret.status = "ok"
    /\ self.use_matching

(* C6: inference with a language name missing from LANG_NAME2ID raises
   KeyError before any stage runs; with None it looks nothing up, raises
   nothing and hands lang_args = None to the acoustic model. *)
C6_LanguageLookup ==
    handler = "inference" =>
        LET lang == lastInf.args[4]
        IN  /\ (lang # <<>> /\ lang[1] \notin DOMAIN LANG_NAME2ID)
                 => (ret.status = "KeyError" /\ passes = <<>>)
            /\ lang = <<>> =>
                 /\ ret.status = "ok"
                 /\ lastInf.lookups = <<>>
                 /\ LET c == passes[1].calls
                    IN  /\ c[Len(c)].fn = "model"
                        /\ Kw("lang_args", PyNone) \in Range(c[Len(c)].args)
            /\ (lang # <<>> /\ lang[1] \in DOMAIN LANG_NAME2ID) =>
                 /\ ret.status = "ok"
                 /\ LET c == passes[1].calls
                    IN  Kw("lang_args", LongTensor(<<LANG_NAME2ID[lang[1]]>>))
                            \in Range(c[Len(c)].args)

C6_Witness ==
    /\ handler = "inference"
    /\ lastInf.args[4] = <<"xx">>
    /\ ret.status = "KeyError"
    /\ passes = <<>>

(* C7: build_optimized_model returns the text encoder, the acoustic model
   and the embedding module, the matching module exactly when use_matching
   is on, and never the loss function. *)
C7_OptimizedModules ==
    handler = "build_optimized_model" =>
        LET S == Range(ret.value)
            classes == {heap[o].cls : o \in S}
        IN  /\ {self.text_encoder, self.model, self.embedding_model} \subseteq S
            /\ {"TextEncoder", "FastSpeech2", "MultilingualEmbedding"} \subseteq classes
            /\ self.use_matching <=> "SoftMultiAttCodebook" \in classes
            /\ self.use_matching => self.text_matching \in S
            /\ "FastSpeech2Loss" \notin classes
            /\ self.loss_func \notin S

C7_Witness ==
    /\ handler = "build_optimized_model"
    /\ self.use_matching
    /\ Len(ret.value) = 4

(* C8: training_step returns loss, losses, output and _batch, validation_step
   these plus synth; loss is losses["Total Loss"], output the model output of
   the common_step pass, _batch the batch passed in, synth the output of
   synth_step on that batch; the six loss scalars are logged under keys
   prefixed Train/ and Val/ respectively. *)
StepResultOK(fields, prefix, last) ==
    /\ ret.status = "ok"
    /\ DOMAIN ret.value = fields
    /\ ret.value.loss = Get(ret.value.losses, "Total Loss")
    /\ ret.value.losses = passes[1].value.loss_dict
    /\ LET c == passes[1].calls
       IN  \E j \in DOMAIN c : c[j].fn = "model" /\ ret.value.output = c[j].out
    /\ ret.value._batch = last.batch
    /\ Len(logged.dict) = 6
    /\ \A i \in 1..6 :
          /\ logged.dict[i].k = prefix \o LossNames[i]
          /\ logged.dict[i].v = Item(ret.value.losses[i].v)

C8_StepResults ==
    /\ handler = "training_step" =>
          /\ StepResultOK({"loss", "losses", "output", "_batch"}, "Train/", lastTrain)
          /\ Len(passes) = 1
    /\ handler = "validation_step" =>
          /\ StepResultOK({"loss", "losses", "output", "_batch", "synth"}, "Val/", lastVal)
          /\ Len(passes) = 2
          /\ passes[2].entry = "synth_step"
          /\ passes[2].calls[1].args = <<Idx(lastVal.batch, 3)>>
          /\ ret.value.synth = passes[2].calls[Len(passes[2].calls)].out

C8_Witness ==
    /\ handler = "validation_step"
    /\ ret.status = "ok"
    /\ logged.dict[1].k = "Val/Total Loss"
    /\ lastTrain.losses # <<>>

(* C9: every forward pass calls embedding, text encoder, (matching when
   enabled), acoustic model in that order, each fed the previous stage's
   output; common_step alone then calls the loss function on the batch
   without its last element and the model output. *)
C9_StageOrder ==
    \A i \in DOMAIN passes :
        LET c == passes[i].calls
            u == self.use_matching
            stages == <<"embedding_model", "text_encoder">>
                      \o (IF u THEN <<"text_matching">> ELSE <<>>)
                      \o <<"model">>
            n == Len(stages)
            enc == c[2].out
            fed == IF u THEN Idx(c[3].out.args, 0) ELSE enc
        IN  /\ passes[i].status = "ok"
            /\ Fns(c) = IF passes[i].entry = "common_step"
                        THEN stages \o <<"loss_func">> ELSE stages
            /\ c[2].args[1] = c[1].out
            /\ u => c[3].args = <<enc>>
            /\ c[n].args[2] = fed
            /\ passes[i].entry = "common_step" =>
                  c[n + 1].args = <<PyTuple(SubSeq(batch, 1, Len(batch) - 1)), c[n].out>>

C9_Witness ==
    /\ handler = "validation_step"
    /\ self.use_matching
    /\ Len(passes) = 2
    /\ Len(passes[1].calls) = 5
    /\ Len(passes[2].calls) = 4
    /\ lastInf.result.status = "ok"

(* C10: once setup is over no call changes the system's attributes (configs,
   spk_config, bs, use_matching, submodules) or its objects, the matching
   module's bank is the very object shared_emb_banks names, and a step leaves
   the batch it was given as it was. *)
C10_Frame ==
    [][Built =>
          /\ self' = self
          /\ heap' = heap
          /\ pc \in {"train_ready", "val_ready"} => batch' = batch
          /\ self.use_matching =>
                heap'[self'.text_matching].emb_banks = self'.shared_emb_banks]_vars

C10_Witness ==
    /\ handler = "inference"
    /\ ret.status = "ok"
    /\ self.use_matching
    /\ heap[self.text_matching].emb_banks = self.shared_emb_banks
    /\ lastTrain.losses # <<>>
    /\ lastVal.losses # <<>>
    /\ weights > 0

====
